---- MODULE Spec2Model ----
(***************************************************************************)
(* A model of gallon/data.py: record types built by DataMetaClass, fields  *)
(* declared with field() (DataFieldModel descriptors), construction by     *)
(* DataClass.__init__, the descriptor write path, and the JSON encoder     *)
(* and serialisation functions (GallonEncoder, parse, dumps, loads).       *)
(*                                                                         *)
(* Python values are tagged records [t |-> tag, ...].  Text (str) is a     *)
(* sequence of one-character strings, so that encoding and parsing are     *)
(* computed character by character.                                        *)
(***************************************************************************)
EXTENDS Integers, Sequences, FiniteSets, TLC

VARIABLES cls, instances, metadata, last, input

vars == <<cls, instances, metadata, last, input>>

----------------------------------------------------------------------------
(* Bounds of the model *)

MaxMeta == 2
MaxBytes == 3

----------------------------------------------------------------------------
(* Python values: records tagged by t, the payload in a field of its own
   name for each tag *)

None == [t |-> "none"]
Required == [t |-> "ellipsis"]
True == [t |-> "bool", b |-> TRUE]
False == [t |-> "bool", b |-> FALSE]
IntV(n) == [t |-> "int", n |-> n]
StrV(s) == [t |-> "str", s |-> s]
DictV(d) == [t |-> "dict", d |-> d]

IsNone(x) == x.t = "none"

(* F(e), with e evaluated once: the value of a local variable *)
Bind(e, F(_)) == CHOOSE y \in {F(x) : x \in {e}} : TRUE

(* x == y on the values of the model *)
PyEq(x, y) == x.t = y.t /\ x = y

(* type(value): the name of the value's class *)
TypeOf(x) ==
  CASE x.t = "none" -> "NoneType"
    [] x.t = "ellipsis" -> "ellipsis"
    [] x.t = "field" -> "DataFieldModel"
    [] OTHER -> x.t

(* isinstance(value, tp) for the annotation types of the model; bool is a
   subclass of int, everything is an instance of object *)
TypeV(n) == [t |-> "type", name |-> n]

IsInstance(x, tp) ==
  CASE tp.name = "object" -> TRUE
    [] tp.name = "int" -> x.t \in {"int", "bool"}
    [] tp.name = "str" -> x.t = "str"
    [] OTHER -> FALSE

(* A zero-argument callable, identified by the value it returns *)
Factory(r) == [t |-> "factory", result |-> r]

----------------------------------------------------------------------------
(* dict: insertion-ordered sequence of <<key, value>> pairs *)

DictHas(d, k) == \E i \in 1..Len(d) : d[i][1] = k

DictGet(d, k, dflt) ==
  IF DictHas(d, k)
  THEN d[CHOOSE i \in 1..Len(d) : d[i][1] = k][2]
  ELSE dflt

DictSet(d, k, x) ==
  IF DictHas(d, k)
  THEN [i \in 1..Len(d) |-> IF d[i][1] = k THEN <<k, x>> ELSE d[i]]
  ELSE Append(d, <<k, x>>)

(* del d[k]: KeyError when d holds no k *)
DictDel(d, k) ==
  IF DictHas(d, k)
  THEN [err |-> "", dict |-> SelectSeq(d, LAMBDA p : p[1] # k)]
  ELSE [err |-> "KeyError", dict |-> d]

DictKeys(d) == [i \in 1..Len(d) |-> d[i][1]]

----------------------------------------------------------------------------
(* Field specifications and record types *)

(* field(): a DataFieldModel not yet attached to a class *)
field(default, default_factory, required, index, unique) ==
  [t |-> "field", name |-> None, type |-> None,
   default |-> default, default_factory |-> default_factory,
   required |-> required, index |-> index, unique |-> unique]

IsField(x) == x.t = "field"

(* DataFieldModel.__set_name__: the part that fixes name and type *)
SetName(attr, annotations, name) ==
  [attr EXCEPT !.name = name, !.type = DictGet(annotations, name, TypeV("Any"))]

(* DataFieldModel.__set_name__ over the class body, in attribute order: the
   owner's __indexes__ (flag = "index") or __uniques__ (flag = "unique") *)
RECURSIVE Registry(_, _, _)
Registry(attrs, flag, n) ==
  IF n = 0 THEN << >>
  ELSE LET rest == Registry(attrs, flag, n - 1)
           a == attrs[n][2]
       IN IF IsField(a) /\ ~IsNone(a[flag])
          THEN DictSet(rest, attrs[n][1], a[flag])
          ELSE rest

(* A metaclass that looks at the first attribute of the body only: for it
   C1_UnannotatedFieldRejected fails *)
UnannotatedFirst(body) ==
  SelectSeq(IF body.attrs = << >> THEN << >> ELSE <<body.attrs[1]>>,
            LAMBDA p : IsField(p[2]) /\ ~DictHas(body.annotations, p[1]))

(* The names of the attributes DataMetaClass.__new__ rejects *)
Unannotated(body) ==
  SelectSeq(body.attrs,
            LAMBDA p : IsField(p[2]) /\ ~DictHas(body.annotations, p[1]))

(* DataMetaClass.__new__: the class, or the TypeError and the attribute it
   names *)
DataMetaClassNew(body) ==
  IF Unannotated(body) # << >>
  THEN [err |-> "TypeError", at |-> Unannotated(body)[1][1], cls |-> None]
  ELSE [err |-> "", at |-> << >>,
        cls |-> [t |-> "class",
                 annotations |-> body.annotations,
                 attrs |-> [i \in 1..Len(body.attrs) |->
                              IF IsField(body.attrs[i][2])
                              THEN <<body.attrs[i][1],
                                     SetName(body.attrs[i][2],
                                             body.annotations,
                                             body.attrs[i][1])>>
                              ELSE body.attrs[i]],
                 indexes |-> Registry(body.attrs, "index", Len(body.attrs)),
                 uniques |-> Registry(body.attrs, "unique",
                                      Len(body.attrs))]]

----------------------------------------------------------------------------
(* Descriptor write path *)

(* DataFieldDescriptor.__get__ on an instance: [err, value] *)
DescriptorGet(attr, dict) ==
  IF DictHas(dict, attr.name)
  THEN [err |-> "", value |-> DictGet(dict, attr.name, None)]
  ELSE [err |-> "KeyError", value |-> None]

(* DataFieldDescriptor.__delete__: [err, dict] *)
DescriptorDelete(attr, dict) == DictDel(dict, attr.name)

(* DataFieldDescriptor.__set__ *)
DescriptorSet(attr, dict, value) ==
  IF IsNone(attr.type)
  THEN [err |-> "TypeError", dict |-> dict, calls |-> 0]
  ELSE [err |-> "", dict |-> DictSet(dict, attr.name, value), calls |-> 0]

(* A descriptor write that invokes the default factory whenever there is
   one and no static default, whatever value it is given: for it
   C5_FactoryOnce fails *)
FieldModelSetEager(attr, dict, value) ==
  Bind(DescriptorSet(attr, dict, value), LAMBDA s :
  IF s.err # "" THEN s
  ELSE IF PyEq(attr.default, Required) /\ IsNone(value)
  THEN [err |-> "ValueError", dict |-> s.dict, calls |-> 0]
  ELSE IF IsNone(value) /\ ~IsNone(attr.default)
  THEN [err |-> "", dict |-> DictSet(s.dict, attr.name, attr.default),
        calls |-> 0]
  ELSE IF ~IsNone(attr.default_factory)
  THEN [err |-> "",
        dict |-> DictSet(s.dict, attr.name, attr.default_factory.result),
        calls |-> 1]
  ELSE [err |-> "", dict |-> DictSet(s.dict, attr.name, value), calls |-> 0])

(* DataFieldModel.__set__; calls counts the invocations of default_factory *)
FieldModelSet(attr, dict, value) ==
  Bind(DescriptorSet(attr, dict, value), LAMBDA s :
  IF s.err # "" THEN s
  ELSE IF PyEq(attr.default, Required) /\ IsNone(value)
  THEN [err |-> "ValueError", dict |-> s.dict, calls |-> 0]
  ELSE IF IsNone(value) /\ ~IsNone(attr.default)
  THEN [err |-> "", dict |-> DictSet(s.dict, attr.name, attr.default),
        calls |-> 0]
  ELSE IF IsNone(value) /\ ~IsNone(attr.default_factory)
  THEN [err |-> "",
        dict |-> DictSet(s.dict, attr.name, attr.default_factory.result),
        calls |-> 1]
  ELSE [err |-> "", dict |-> DictSet(s.dict, attr.name, value), calls |-> 0])

(* getattr(cls, name, None) *)
GetAttr(c, name) == DictGet(c.attrs, name, None)

(* setattr(instance, name, value): a DataFieldModel on the class is a data
   descriptor and takes the write; otherwise the instance dict is written *)
SetAttr(c, dict, name, value) ==
  Bind(GetAttr(c, name), LAMBDA attr :
  IF IsField(attr)
  THEN FieldModelSet(attr, dict, value)
  ELSE [err |-> "", dict |-> DictSet(dict, name, value), calls |-> 0])

(* delattr(instance, name): the DataFieldModel on the class takes the
   deletion; a name that is only annotated is removed from the instance
   dict, AttributeError when the instance does not hold it *)
DelAttr(c, dict, name) ==
  Bind(GetAttr(c, name), LAMBDA attr :
  IF IsField(attr) THEN DescriptorDelete(attr, dict)
  ELSE IF DictHas(dict, name) THEN DictDel(dict, name)
  ELSE [err |-> "AttributeError", dict |-> dict])

(* getattr(instance, name): the DataFieldModel on the class answers the
   read; a name that is only annotated is looked up in the instance dict,
   AttributeError when the instance does not hold it *)
GetValue(c, dict, name) ==
  Bind(GetAttr(c, name), LAMBDA attr :
  IF IsField(attr) THEN DescriptorGet(attr, dict)
  ELSE IF DictHas(dict, name)
  THEN [err |-> "", value |-> DictGet(dict, name, None)]
  ELSE [err |-> "AttributeError", value |-> None])

----------------------------------------------------------------------------
(* DataClass.__init__ *)

(* The class-level dict DataClass.metadata, shared by every record type and
   every instance, as it is before any construction *)
EmptyMetadata == [indexes |-> << >>, uniques |-> << >>]

Fail(st, err, name) == [st EXCEPT !.err = err, !.at = name]

Called(st, name) ==
  [st EXCEPT !.calls = DictSet(@, name, DictGet(@, name, 0) + 1)]

(* value = attr.default_factory(), then the isinstance check on the result *)
UseFactory(st, attr, name) ==
  LET c == Called(st, name)
      r == attr.default_factory.result
  IN IF IsInstance(r, attr.type)
     THEN [c EXCEPT !.value = r]
     ELSE Fail(c, "TypeError", name)

(* The resolution of a field that carries a DataFieldModel: the Required,
   static default and default factory branches *)
Resolve(st, attr, name) ==
  IF PyEq(attr.default, Required) /\ IsNone(st.value)
  THEN IF ~IsNone(attr.default_factory)
       THEN UseFactory(st, attr, name)
       ELSE Fail(st, "ValueError", name)
  ELSE IF IsNone(st.value)
  THEN IF ~IsNone(attr.default)
       THEN IF IsInstance(attr.default, attr.type)
            THEN IF IsInstance(attr.default, attr.type)
                 THEN [st EXCEPT !.value = attr.default]
                 ELSE Fail(st, "TypeError", name)
            ELSE st
       ELSE IF ~IsNone(attr.default_factory)
            THEN UseFactory(st, attr, name)
            ELSE st
  ELSE st

(* self.metadata["indexes"].append(name), self.metadata["uniques"].append *)
Record(st, attr, name) ==
  [st EXCEPT
     !.meta.indexes = IF ~IsNone(attr.index) THEN Append(@, name) ELSE @,
     !.meta.uniques = IF ~IsNone(attr.unique) THEN Append(@, name) ELSE @]

(* The guard on the supplied value at the head of the loop body *)
SuppliedTypeError(value) ==
  TypeOf(value) \notin {TypeOf(value), "DataFieldModel"}

(* The final setattr(self, name, value) of the loop body *)
Assign(st, c, name) ==
  Bind(SetAttr(c, st.dict, name, st.value), LAMBDA w :
  Bind([st EXCEPT !.dict = w.dict,
                  !.calls = IF w.calls > 0
                            THEN DictSet(@, name,
                                         DictGet(@, name, 0) + w.calls)
                            ELSE @], LAMBDA n :
  IF w.err # "" THEN Fail(n, w.err, name) ELSE n))

(* One iteration of the loop over the annotations *)
InitField(st, c, kwargs, name) ==
  Bind([st EXCEPT !.value = DictGet(kwargs, name, None)], LAMBDA v :
  Bind(GetAttr(c, name), LAMBDA attr :
  IF SuppliedTypeError(v.value) THEN Fail(v, "TypeError", name)
  ELSE IF IsField(attr)
  THEN Bind(Resolve(v, attr, name), LAMBDA r :
       IF r.err # "" THEN r
       ELSE Bind(Record(r, attr, name), LAMBDA m : Assign(m, c, name)))
  ELSE Assign(v, c, name)))

RECURSIVE InitLoop(_, _, _, _)
InitLoop(st, c, kwargs, n) ==
  IF n > Len(c.annotations) \/ st.err # "" THEN st
  ELSE Bind(InitField(st, c, kwargs, c.annotations[n][1]), LAMBDA s :
       InitLoop(s, c, kwargs, n + 1))

(* DataClass.__init__ on a fresh instance, with the shared
   metadata as it stands: the instance dict, the metadata afterwards, the
   default_factory invocations per field, and the exception raised if any *)
DataClassInit(c, kwargs, meta) ==
  InitLoop([dict |-> << >>, meta |-> meta, calls |-> << >>,
            value |-> None, err |-> "", at |-> << >>],
           c, kwargs, 1)

----------------------------------------------------------------------------
(* Text.  A str is a sequence of code points; Str(<<"a", "b">>) writes one
   from its printable ASCII characters (code points 32 to 126; the grave
   accent, 96, cannot be written in a string of this language) *)

Printable ==
  <<" ", "!", "\"", "#", "$", "%", "&", "'", "(", ")", "*", "+", ",", "-",
    ".", "/", "0", "1", "2", "3", "4", "5", "6", "7", "8", "9", ":", ";",
    "<", "=", ">", "?", "@", "A", "B", "C", "D", "E", "F", "G", "H", "I",
    "J", "K", "L", "M", "N", "O", "P", "Q", "R", "S", "T", "U", "V", "W",
    "X", "Y", "Z", "[", "\\", "]", "^", "_", "grave", "a", "b", "c", "d", "e",
    "f", "g", "h", "i", "j", "k", "l", "m", "n", "o", "p", "q", "r", "s",
    "t", "u", "v", "w", "x", "y", "z", "{", "|", "}", "~">>

OrdTable ==
  [c \in {Printable[i] : i \in 1..Len(Printable)} |->
     31 + CHOOSE i \in 1..Len(Printable) : Printable[i] = c]

(* ord(c) *)
Ord(c) == OrdTable[c]

Str(chars) == [i \in 1..Len(chars) |-> Ord(chars[i])]

RECURSIVE Concat(_)
Concat(parts) ==
  IF Len(parts) = 0 THEN << >>
  ELSE IF Len(parts) = 1 THEN parts[1]
  ELSE Concat(SubSeq(parts, 1, Len(parts) \div 2))
         \o Concat(SubSeq(parts, Len(parts) \div 2 + 1, Len(parts)))

(* "%0<width>d" % n, n >= 0 *)
RECURSIVE Digits(_, _)
Digits(n, width) ==
  IF n < 10 /\ width <= 1 THEN <<Ord("0") + n>>
  ELSE Append(Digits(n \div 10, width - 1), Ord("0") + (n % 10))

(* repr of an int *)
IntRepr(n) == IF n < 0 THEN <<Ord("-")>> \o Digits(-n, 1) ELSE Digits(n, 1)

HexDigit(d) == IF d < 10 THEN Ord("0") + d ELSE Ord("a") + (d - 10)

(* "%0<width>x" % n, n >= 0 *)
RECURSIVE Hex(_, _)
Hex(n, width) ==
  IF n < 16 /\ width <= 1 THEN <<HexDigit(n)>>
  ELSE Append(Hex(n \div 16, width - 1), HexDigit(n % 16))

----------------------------------------------------------------------------
(* GallonEncoder.default and the conversions it calls *)

BytesV(b) == [t |-> "bytes", bytes |-> b, json |-> None]
DatetimeV(d) == [t |-> "datetime", dt |-> d, json |-> None]
UuidV(b) == [t |-> "UUID", uuid |-> b, json |-> None]
ObjectV(j) == [t |-> "object", json |-> j]

(* A subclass of bytes, datetime or UUID that defines json(), or any object
   that does: json is the value json() returns (None: no such attribute) *)
WithJson(o, j) == [o EXCEPT !.json = j]

IsCont(b) == b \in 128..191

(* bytes.decode(): strict UTF-8.  [ok, text] *)
RECURSIVE Utf8Decode(_, _)
Utf8Decode(b, i) ==
  IF i > Len(b) THEN [ok |-> TRUE, text |-> << >>]
  ELSE LET n == Len(b) - i
           Then(cp, k) ==
             Bind(Utf8Decode(b, i + k), LAMBDA r :
                  IF r.ok THEN [ok |-> TRUE, text |-> <<cp>> \o r.text]
                  ELSE r)
       IN IF b[i] < 128 THEN Then(b[i], 1)
          ELSE IF /\ b[i] \in 194..223
                  /\ n >= 1 /\ IsCont(b[i + 1])
          THEN Then((b[i] - 192) * 64 + (b[i + 1] - 128), 2)
          ELSE IF /\ b[i] \in 224..239
                  /\ n >= 2 /\ IsCont(b[i + 1]) /\ IsCont(b[i + 2])
                  /\ (b[i] = 224 => b[i + 1] >= 160)
                  /\ (b[i] = 237 => b[i + 1] <= 159)
          THEN Then((b[i] - 224) * 4096 + (b[i + 1] - 128) * 64
                      + (b[i + 2] - 128), 3)
          ELSE IF /\ b[i] \in 240..244
                  /\ n >= 3 /\ IsCont(b[i + 1]) /\ IsCont(b[i + 2])
                  /\ IsCont(b[i + 3])
                  /\ (b[i] = 240 => b[i + 1] >= 144)
                  /\ (b[i] = 244 => b[i + 1] <= 143)
          THEN Then((b[i] - 240) * 262144 + (b[i + 1] - 128) * 4096
                      + (b[i + 2] - 128) * 64 + (b[i + 3] - 128), 4)
          ELSE [ok |-> FALSE, text |-> << >>]

B64Alphabet ==
  Str(<<"A", "B", "C", "D", "E", "F", "G", "H", "I", "J", "K", "L", "M",
        "N", "O", "P", "Q", "R", "S", "T", "U", "V", "W", "X", "Y", "Z",
        "a", "b", "c", "d", "e", "f", "g", "h", "i", "j", "k", "l", "m",
        "n", "o", "p", "q", "r", "s", "t", "u", "v", "w", "x", "y", "z",
        "0", "1", "2", "3", "4", "5", "6", "7", "8", "9", "+", "/">>)

B64Char(sextet) == B64Alphabet[sextet + 1]

(* base64.b64encode(b).decode(): three bytes to four characters, the last
   group padded with "=" *)
RECURSIVE B64Encode(_)
B64Encode(b) ==
  IF Len(b) = 0 THEN << >>
  ELSE IF Len(b) = 1
  THEN <<B64Char(b[1] \div 4), B64Char((b[1] % 4) * 16),
         Ord("="), Ord("=")>>
  ELSE IF Len(b) = 2
  THEN <<B64Char(b[1] \div 4),
         B64Char((b[1] % 4) * 16 + b[2] \div 16),
         B64Char((b[2] % 16) * 4), Ord("=")>>
  ELSE <<B64Char(b[1] \div 4),
         B64Char((b[1] % 4) * 16 + b[2] \div 16),
         B64Char((b[2] % 16) * 4 + b[3] \div 64),
         B64Char(b[3] % 64)>> \o B64Encode(SubSeq(b, 4, Len(b)))

(* datetime.isoformat() of an aware datetime: the microseconds are written
   only if they are not zero, the UTC offset as +HH:MM or -HH:MM *)
LeapYear(y) == y % 4 = 0 /\ (y % 100 # 0 \/ y % 400 = 0)

DaysInMonth(y, m) ==
  IF m = 2 THEN (IF LeapYear(y) THEN 29 ELSE 28)
  ELSE IF m \in {4, 6, 9, 11} THEN 30 ELSE 31

(* The date n days after (n > 0) or before (n < 0) the date of d *)
RECURSIVE AddDays(_, _)
AddDays(d, n) ==
  IF n = 0 THEN d
  ELSE IF n > 0
  THEN AddDays(IF d.day < DaysInMonth(d.year, d.month)
               THEN [d EXCEPT !.day = @ + 1]
               ELSE IF d.month < 12
               THEN [d EXCEPT !.day = 1, !.month = @ + 1]
               ELSE [d EXCEPT !.day = 1, !.month = 1, !.year = @ + 1],
               n - 1)
  ELSE AddDays(IF d.day > 1 THEN [d EXCEPT !.day = @ - 1]
               ELSE IF d.month > 1
               THEN [d EXCEPT !.day = DaysInMonth(d.year, d.month - 1),
                              !.month = @ - 1]
               ELSE [d EXCEPT !.day = 31, !.month = 12, !.year = @ - 1],
               n + 1)

(* datetime.astimezone(): the same instant in the system's local time zone,
   whose UTC offset at that instant is d.local (minutes) *)
Astimezone(d) ==
  LET minutes == d.hour * 60 + d.minute + (d.local - d.utcoffset)
  IN AddDays([d EXCEPT !.hour = (minutes % 1440) \div 60,
                       !.minute = minutes % 60,
                       !.utcoffset = d.local],
             minutes \div 1440)

(* datetime.isoformat() of an aware datetime *)
IsoFormat(d) ==
  Concat(<<Digits(d.year, 4), Str(<<"-">>), Digits(d.month, 2), Str(<<"-">>),
           Digits(d.day, 2), Str(<<"T">>), Digits(d.hour, 2), Str(<<":">>),
           Digits(d.minute, 2), Str(<<":">>), Digits(d.second, 2),
           IF d.microsecond # 0
           THEN Str(<<".">>) \o Digits(d.microsecond, 6) ELSE << >>,
           IF d.utcoffset < 0 THEN Str(<<"-">>) ELSE Str(<<"+">>),
           Digits((IF d.utcoffset < 0 THEN -d.utcoffset ELSE d.utcoffset)
                    \div 60, 2),
           Str(<<":">>),
           Digits((IF d.utcoffset < 0 THEN -d.utcoffset ELSE d.utcoffset)
                    % 60, 2)>>)

(* str(UUID) of the 16 bytes: 8-4-4-4-12 hexadecimal digits *)
UuidStr(b) ==
  Concat([i \in 1..Len(b) |->
            (IF i \in {5, 7, 9, 11} THEN Str(<<"-">>) ELSE << >>)
              \o Hex(b[i], 2)])

(* An encoder that consults json() before the datetime, UUID and bytes
   rules: for it C7_EncoderRuleOrder fails *)
EncoderDefaultJsonFirst(o) ==
  IF ~IsNone(o.json) THEN [err |-> "", value |-> o.json]
  ELSE IF o.t = "datetime" THEN [err |-> "", value |-> StrV(IsoFormat(Astimezone(o.dt)))]
  ELSE IF o.t = "UUID" THEN [err |-> "", value |-> StrV(UuidStr(o.uuid))]
  ELSE IF o.t = "bytes"
  THEN Bind(Utf8Decode(o.bytes, 1), LAMBDA r :
            IF r.ok THEN [err |-> "", value |-> StrV(r.text)]
            ELSE [err |-> "", value |-> StrV(B64Encode(o.bytes))])
  ELSE [err |-> "TypeError", value |-> None]

(* GallonEncoder.default(o): [err, value] *)
EncoderDefault(o) ==
  IF o.t = "datetime" THEN [err |-> "", value |-> StrV(IsoFormat(Astimezone(o.dt)))]
  ELSE IF o.t = "UUID" THEN [err |-> "", value |-> StrV(UuidStr(o.uuid))]
  ELSE IF o.t = "bytes"
  THEN Bind(Utf8Decode(o.bytes, 1), LAMBDA r :
            IF r.ok THEN [err |-> "", value |-> StrV(r.text)]
            ELSE [err |-> "", value |-> StrV(B64Encode(o.bytes))])
  ELSE IF ~IsNone(o.json)
  THEN [err |-> "", value |-> o.json]
  ELSE [err |-> "TypeError", value |-> None]

----------------------------------------------------------------------------
(* json.dumps(o, cls=GallonEncoder, indent=indent) *)

ListV(l) == [t |-> "list", l |-> l]

(* The members of a dict or the elements of a list *)
Items(o) == IF o.t = "dict" THEN o.d ELSE o.l

(* The escape of one character of a str (ensure_ascii) *)
EscapeChar(c) ==
  CASE c = Ord("\"") -> Str(<<"\\", "\"">>)
    [] c = Ord("\\") -> Str(<<"\\", "\\">>)
    [] c = 10 -> Str(<<"\\", "n">>)
    [] c = 13 -> Str(<<"\\", "r">>)
    [] c = 9 -> Str(<<"\\", "t">>)
    [] c = 12 -> Str(<<"\\", "f">>)
    [] c = 8 -> Str(<<"\\", "b">>)
    [] c \in 32..126 /\ c \notin {Ord("\""), Ord("\\")} -> <<c>>
    [] c \notin 32..126 /\ c \notin {8, 9, 10, 12, 13} /\ c < 65536 ->
         Str(<<"\\", "u">>) \o Hex(c, 4)
    [] c >= 65536 ->
         Str(<<"\\", "u">>) \o Hex(55296 + ((c - 65536) \div 1024), 4)
           \o Str(<<"\\", "u">>) \o Hex(56320 + ((c - 65536) % 1024), 4)

EncodeString(text) ==
  <<Ord("\"")>> \o Concat([i \in 1..Len(text) |-> EscapeChar(text[i])])
    \o <<Ord("\"")>>

Spaces(n) == [i \in 1..n |-> 32]

(* "\n" and the indentation of a level; nothing if indent is None *)
NewlineIndent(indent, level) ==
  IF IsNone(indent) THEN << >> ELSE <<10>> \o Spaces(indent.n * level)

ItemSeparator(indent, level) ==
  IF IsNone(indent) THEN Str(<<",", " ">>)
  ELSE Str(<<",">>) \o NewlineIndent(indent, level)

RECURSIVE JsonEncode(_, _, _)
RECURSIVE EncodeItems(_, _, _, _, _)

(* The members of a dict (isDict) or the elements of a list from the i-th
   on, separated: [err, text] *)
EncodeItems(items, i, isDict, indent, level) ==
  IF i > Len(items) THEN [err |-> "", text |-> << >>]
  ELSE Bind(JsonEncode(IF isDict THEN items[i][2] ELSE items[i],
                       indent, level), LAMBDA e :
       IF e.err # "" THEN e
       ELSE Bind(EncodeItems(items, i + 1, isDict, indent, level), LAMBDA r :
            IF r.err # "" THEN r
            ELSE [err |-> "",
                  text |-> (IF i > 1 THEN ItemSeparator(indent, level)
                            ELSE << >>)
                           \o (IF isDict
                               THEN EncodeString(items[i][1])
                                      \o Str(<<":", " ">>)
                               ELSE << >>)
                           \o e.text \o r.text]))

(* JSONEncoder.iterencode with GallonEncoder.default: [err, text] *)
JsonEncode(o, indent, level) ==
  IF o.t = "none" THEN [err |-> "", text |-> Str(<<"n", "u", "l", "l">>)]
  ELSE IF o.t = "bool"
  THEN [err |-> "",
        text |-> IF o.b THEN Str(<<"t", "r", "u", "e">>)
                 ELSE Str(<<"f", "a", "l", "s", "e">>)]
  ELSE IF o.t = "int" THEN [err |-> "", text |-> IntRepr(o.n)]
  ELSE IF o.t = "str" THEN [err |-> "", text |-> EncodeString(o.s)]
  ELSE IF o.t \in {"dict", "list"}
  THEN IF Items(o) = << >>
       THEN [err |-> "",
             text |-> IF o.t = "dict" THEN Str(<<"{", "}">>)
                      ELSE Str(<<"[", "]">>)]
       ELSE Bind(EncodeItems(Items(o), 1, o.t = "dict", indent, level + 1),
                 LAMBDA r :
            IF r.err # "" THEN r
            ELSE [err |-> "",
                  text |-> (IF o.t = "dict" THEN Str(<<"{">>)
                            ELSE Str(<<"[">>))
                           \o NewlineIndent(indent, level + 1)
                           \o r.text
                           \o NewlineIndent(indent, level)
                           \o (IF o.t = "dict" THEN Str(<<"}">>)
                               ELSE Str(<<"]">>))])
  ELSE Bind(EncoderDefault(o), LAMBDA d :
       IF d.err # "" THEN [err |-> d.err, text |-> << >>]
       ELSE JsonEncode(d.value, indent, level))

JsonDumps(o, indent) == JsonEncode(o, indent, 0)

----------------------------------------------------------------------------
(* json.loads(text) *)

Bad(i) == [err |-> "JSONDecodeError", value |-> None, end |-> i]
Good(x, i) == [err |-> "", value |-> x, end |-> i]

IsWs(c) == c \in {32, 9, 10, 13}

RECURSIVE SkipWs(_, _)
SkipWs(s, i) == IF i <= Len(s) /\ IsWs(s[i]) THEN SkipWs(s, i + 1) ELSE i

At(s, i, c) == i <= Len(s) /\ s[i] = Ord(c)

Lit(s, i, word) ==
  /\ i + Len(word) - 1 <= Len(s)
  /\ SubSeq(s, i, i + Len(word) - 1) = Str(word)

IsDigit(c) == c \in Ord("0")..Ord("9")

HexValue(c) ==
  IF IsDigit(c) THEN c - Ord("0")
  ELSE IF c \in Ord("a")..Ord("f") THEN c - Ord("a") + 10
  ELSE IF c \in Ord("A")..Ord("F") THEN c - Ord("A") + 10
  ELSE -1

(* The four hexadecimal digits of a \uXXXX escape, -1 if they are not *)
Hex4(s, i) ==
  IF i + 3 <= Len(s) /\ \A k \in 0..3 : HexValue(s[i + k]) >= 0
  THEN HexValue(s[i]) * 4096 + HexValue(s[i + 1]) * 256
         + HexValue(s[i + 2]) * 16 + HexValue(s[i + 3])
  ELSE -1

Unescape(c) ==
  IF c = Ord("n") THEN 10
  ELSE IF c = Ord("r") THEN 13
  ELSE IF c = Ord("t") THEN 9
  ELSE IF c = Ord("f") THEN 12
  ELSE IF c = Ord("b") THEN 8
  ELSE c

(* The number of consecutive backslashes that end just before s[j], in the
   string content that starts at s[i] *)
RunBefore(s, i, j) ==
  CHOOSE r \in 0..(j - i) :
    /\ \A k \in (j - r)..(j - 1) : s[k] = Ord("\\")
    /\ j - r - 1 < i \/ s[j - r - 1] # Ord("\\")

(* The closing quote: the first quote that no backslash escapes *)
Closing(s, i) ==
  {j \in i..Len(s) : s[j] = Ord("\"") /\ RunBefore(s, i, j) % 2 = 0}

(* The backslashes that start an escape sequence, up to s[e] *)
EscStarts(s, i, e) ==
  {j \in i..e : s[j] = Ord("\\") /\ RunBefore(s, i, j) % 2 = 0}

(* s[j] starts a \uXXXX escape *)
UEscape(s, starts, j) == j \in starts /\ At(s, j + 1, "u")

(* s[j], inside the string content, is malformed: an unknown escape, a
   \u without four hexadecimal digits, or a raw control character *)
BadChar(s, starts, j) ==
  IF j \in starts
  THEN IF UEscape(s, starts, j) THEN Hex4(s, j + 2) < 0
       ELSE s[j + 1] \notin {Ord("\""), Ord("\\"), Ord("/"), Ord("b"),
                             Ord("f"), Ord("n"), Ord("r"), Ord("t")}
  ELSE s[j] < 32

(* What s[j] contributes to the decoded string: the character an escape
   stands for at its backslash (a surrogate pair of \u escapes one
   character), nothing for the rest of an escape, the character itself
   otherwise *)
Decoded(s, starts, j) ==
  IF UEscape(s, starts, j)
  THEN IF /\ Hex4(s, j + 2) \in 56320..57343
          /\ UEscape(s, starts, j - 6) /\ Hex4(s, j - 4) \in 55296..56319
       THEN << >>
       ELSE IF /\ Hex4(s, j + 2) \in 55296..56319
               /\ UEscape(s, starts, j + 6)
               /\ Hex4(s, j + 8) \in 56320..57343
       THEN <<65536 + (Hex4(s, j + 2) - 55296) * 1024
                + (Hex4(s, j + 8) - 56320)>>
       ELSE <<Hex4(s, j + 2)>>
  ELSE IF j \in starts THEN <<Unescape(s[j + 1])>>
  ELSE IF (j - 1) \in starts THEN << >>
  ELSE IF \E k \in 2..5 : UEscape(s, starts, j - k) THEN << >>
  ELSE <<s[j]>>

(* scanstring (strict): s[i] follows the opening quote *)
ScanString(s, i) ==
  IF Closing(s, i) = {} THEN Bad(i)
  ELSE Bind(CHOOSE j \in Closing(s, i) : \A k \in Closing(s, i) : j <= k,
            LAMBDA e :
       Bind(EscStarts(s, i, e - 1), LAMBDA starts :
       IF \E j \in i..(e - 1) : BadChar(s, starts, j) THEN Bad(i)
       ELSE Good(StrV(Concat([k \in 1..(e - i) |->
                                Decoded(s, starts, i + k - 1)])),
                 e + 1)))

RECURSIVE ScanDigits(_, _, _)
ScanDigits(s, i, n) ==
  IF i <= Len(s) /\ IsDigit(s[i])
  THEN ScanDigits(s, i + 1, n * 10 + (s[i] - Ord("0")))
  ELSE [value |-> n, end |-> i]

(* An integer literal: an optional minus sign, then 0 or a nonzero digit
   followed by digits.  A fraction or an exponent after
   it would make a float, which the values of the model do not include *)
ScanNumber(s, i) ==
  Bind(IF At(s, i, "-") THEN i + 1 ELSE i, LAMBDA j :
  IF j > Len(s) \/ ~IsDigit(s[j]) THEN Bad(i)
  ELSE Bind(IF s[j] = Ord("0") THEN [value |-> 0, end |-> j + 1]
            ELSE ScanDigits(s, j, 0), LAMBDA d :
       IF At(s, d.end, ".") \/ At(s, d.end, "e") \/ At(s, d.end, "E")
       THEN Bad(d.end)
       ELSE Good(IntV(IF j > i THEN -d.value ELSE d.value), d.end)))

RECURSIVE ScanOnce(_, _)
RECURSIVE ScanObject(_, _, _)
RECURSIVE ScanArray(_, _, _)

(* JSONObject: s[i] is the opening quote of the next key *)
ScanObject(s, i, acc) ==
  IF ~At(s, i, "\"") THEN Bad(i)
  ELSE Bind(ScanString(s, i + 1), LAMBDA k :
       IF k.err # "" THEN k
       ELSE Bind(SkipWs(s, k.end), LAMBDA c :
            IF ~At(s, c, ":") THEN Bad(c)
            ELSE Bind(ScanOnce(s, SkipWs(s, c + 1)), LAMBDA x :
                 IF x.err # "" THEN x
                 ELSE Bind(SkipWs(s, x.end), LAMBDA e :
                      Bind(DictSet(acc, k.value.s, x.value), LAMBDA d :
                      IF At(s, e, "}") THEN Good(DictV(d), e + 1)
                      ELSE IF At(s, e, ",")
                      THEN ScanObject(s, SkipWs(s, e + 1), d)
                      ELSE Bad(e))))))

(* JSONArray: s[i] is the first character of the next element *)
ScanArray(s, i, acc) ==
  Bind(ScanOnce(s, i), LAMBDA x :
  IF x.err # "" THEN x
  ELSE Bind(SkipWs(s, x.end), LAMBDA e :
       IF At(s, e, "]") THEN Good(ListV(Append(acc, x.value)), e + 1)
       ELSE IF At(s, e, ",")
       THEN ScanArray(s, SkipWs(s, e + 1), Append(acc, x.value))
       ELSE Bad(e)))

(* scan_once: the value that starts at s[i] *)
ScanOnce(s, i) ==
  IF i > Len(s) THEN Bad(i)
  ELSE IF At(s, i, "\"") THEN ScanString(s, i + 1)
  ELSE IF At(s, i, "{")
  THEN Bind(SkipWs(s, i + 1), LAMBDA j :
       IF At(s, j, "}") THEN Good(DictV(<< >>), j + 1)
       ELSE ScanObject(s, j, << >>))
  ELSE IF At(s, i, "[")
  THEN Bind(SkipWs(s, i + 1), LAMBDA j :
       IF At(s, j, "]") THEN Good(ListV(<< >>), j + 1)
       ELSE ScanArray(s, j, << >>))
  ELSE IF Lit(s, i, <<"n", "u", "l", "l">>) THEN Good(None, i + 4)
  ELSE IF Lit(s, i, <<"t", "r", "u", "e">>) THEN Good(True, i + 4)
  ELSE IF Lit(s, i, <<"f", "a", "l", "s", "e">>) THEN Good(False, i + 5)
  ELSE ScanNumber(s, i)

(* json.loads: one value, with nothing but whitespace around it *)
JsonLoads(s) ==
  Bind(ScanOnce(s, SkipWs(s, 1)), LAMBDA x :
  IF x.err # "" THEN [err |-> x.err, value |-> None]
  ELSE IF SkipWs(s, x.end) # Len(s) + 1
  THEN [err |-> "JSONDecodeError", value |-> None]
  ELSE [err |-> "", value |-> x.value])

----------------------------------------------------------------------------
(* parse, GallonModel.dict, GallonModel.json, dumps, loads.  Each is
   [err, value]; a str value is the JSON text *)

(* parse(dct, exclude_none): both branches on exclude_none are the same *)
parse(dct, exclude_none) ==
  Bind(JsonDumps(dct, None), LAMBDA t :
  IF t.err # "" THEN [err |-> t.err, value |-> None]
  ELSE IF exclude_none THEN JsonLoads(t.text)
  ELSE JsonLoads(t.text))

(* GallonModel.dict(self, exclude_none) *)
GallonModelDict(dict, exclude_none) == parse(DictV(dict), exclude_none)

ToText(r) ==
  IF r.err # "" THEN r
  ELSE Bind(JsonDumps(r.value, IntV(4)), LAMBDA t :
       IF t.err # "" THEN [err |-> t.err, value |-> None]
       ELSE [err |-> "", value |-> StrV(t.text)])

(* GallonModel.json(self, exclude_none) *)
GallonModelJson(dict, exclude_none) ==
  ToText(GallonModelDict(dict, exclude_none))

(* dumps(obj, exclude_none) *)
dumps(obj, exclude_none) == ToText(parse(obj, exclude_none))

(* loads(string) *)
loads(string) ==
  Bind(dumps(string, TRUE), LAMBDA t :
  IF t.err # "" THEN t ELSE JsonLoads(t.value.s))

----------------------------------------------------------------------------
(* The inputs of the model: class bodies, keyword arguments, written values *)

anon == Str(<<"a", "n", "o", "n">>)

Names == <<Str(<<"a">>), Str(<<"b">>)>>

Handles == {"u"}

FieldTypes == {TypeV("int"), TypeV("object")}
Defaults == {None, Required, IntV(5), StrV(anon)}
Factories == {None, Factory(None), Factory(IntV(7))}
Flags == {None, True}
Supplied == {None, IntV(30), StrV(Str(<<"x">>))}

(* The DataFieldModels a class body may hold: every default with every
   default factory, and every combination of the three flags *)
FieldSpecs ==
  {field(d, f, None, None, None) : d \in Defaults, f \in Factories}
    \cup {field(None, None, r, None, None) : r \in Flags}
    \cup {field(None, None, None, i, u) : i \in Flags, u \in Flags}

NoAttr == [t |-> "absent"]

(* One name of a class body: its annotation (None if it has none) and the
   value bound to it in the body (NoAttr if it is only annotated) *)
Decls ==
  {[annotation |-> tp, value |-> x] : tp \in FieldTypes,
                                      x \in FieldSpecs \cup {NoAttr}}
    \cup {[annotation |-> None, value |-> x] : x \in FieldSpecs}

RECURSIVE BodyOf(_, _)
BodyOf(decls, n) ==
  IF n = 0 THEN [annotations |-> << >>, attrs |-> << >>]
  ELSE LET b == BodyOf(decls, n - 1)
           d == decls[n]
       IN [annotations |-> IF IsNone(d.annotation) THEN b.annotations
                           ELSE Append(b.annotations,
                                       <<Names[n], d.annotation>>),
           attrs |-> IF d.value = NoAttr THEN b.attrs
                     ELSE Append(b.attrs, <<Names[n], d.value>>)]

ClassBodies ==
  {BodyOf(ds, Len(ds)) :
     ds \in UNION {[1..n -> Decls] : n \in 1..Len(Names)}}

KwargsFor(c) ==
  {[i \in 1..Len(c.annotations) |-> <<c.annotations[i][1], f[i]>>] :
     f \in [1..Len(c.annotations) -> Supplied]}

----------------------------------------------------------------------------
(* The state machine *)

Instance(d) == [t |-> "instance", dict |-> d]

(* The last operation: its name, the exception it raised ("" if none) and
   the field the exception names, the handle it worked on, its arguments
   (the class body of a definition, the keyword arguments of a
   construction), the default_factory invocations it made per field, and
   the value written or returned *)
NoOp ==
  [op |-> "start", err |-> "", at |-> << >>, h |-> "", args |-> << >>,
   calls |-> << >>, value |-> None]

Init ==
  /\ cls = None
  /\ instances = [h \in Handles |-> None]
  /\ metadata = EmptyMetadata
  /\ last = NoOp
  /\ input = None

(* class C(GallonModel): <body>, the first statement of the program.  The
   TypeError of a rejected class body ends the program *)
DefineType(body) ==
  /\ IsNone(cls)
  /\ last.op = "start"
  /\ \E r \in {DataMetaClassNew(body)} :
        /\ cls' = IF r.err = "" THEN r.cls ELSE cls
        /\ last' = [NoOp EXCEPT !.op = "define", !.err = r.err, !.at = r.at,
                                !.args = body]
  /\ UNCHANGED <<instances, metadata, input>>

(* h = C(a=..., b=...) *)
Construct(h, kwargs) ==
  /\ ~IsNone(cls)
  /\ Len(metadata.indexes) < MaxMeta
  /\ Len(metadata.uniques) < MaxMeta
  /\ \E r \in {DataClassInit(cls, kwargs, metadata)} :
        /\ instances' = IF r.err = ""
                        THEN [instances EXCEPT ![h] = Instance(r.dict)]
                        ELSE instances
        /\ metadata' = r.meta
        /\ last' = [NoOp EXCEPT !.op = "construct", !.err = r.err,
                                !.at = r.at, !.h = h, !.args = kwargs,
                                !.calls = r.calls]
  /\ UNCHANGED <<cls, input>>

(* h.name = value *)
Write(h, name, value) ==
  /\ ~IsNone(instances[h])
  /\ \E w \in {SetAttr(cls, instances[h].dict, name, value)} :
        /\ instances' = [instances EXCEPT ![h] = Instance(w.dict)]
        /\ last' = [NoOp EXCEPT !.op = "write", !.err = w.err, !.at = name,
                                !.h = h, !.value = value,
                                !.calls = IF w.calls > 0
                                          THEN <<<<name, w.calls>>>>
                                          ELSE << >>]
  /\ UNCHANGED <<cls, metadata, input>>

(* del h.name *)
Delete(h, name) ==
  /\ ~IsNone(instances[h])
  /\ \E w \in {DelAttr(cls, instances[h].dict, name)} :
        /\ instances' = [instances EXCEPT ![h] = Instance(w.dict)]
        /\ last' = [NoOp EXCEPT !.op = "delete", !.err = w.err, !.at = name,
                                !.h = h]
  /\ UNCHANGED <<cls, metadata, input>>

Define ==
  /\ IsNone(cls)
  /\ last.op = "start"
  /\ \E body \in ClassBodies : DefineType(body)

New ==
  /\ ~IsNone(cls)
  /\ \E h \in Handles : \E kwargs \in KwargsFor(cls) : Construct(h, kwargs)

Assignment ==
  /\ ~IsNone(cls)
  /\ \E h \in Handles : \E i \in 1..Len(cls.annotations) :
       \E value \in Supplied : Write(h, cls.annotations[i][1], value)

Deletion ==
  /\ ~IsNone(cls)
  /\ \E h \in Handles : \E i \in 1..Len(cls.annotations) :
       Delete(h, cls.annotations[i][1])

Next == Define \/ New \/ Assignment \/ Deletion

Spec == Init /\ [][Next]_vars

----------------------------------------------------------------------------
(* Serialisation: the encoder and the serialisation functions applied to an
   input drawn from bounded sets *)

ByteValues == {65, 195, 169, 226, 130, 172, 255}

ByteStrings == UNION {[1..n -> ByteValues] : n \in 0..MaxBytes}

(* Aware datetimes around the end of February of a leap year, and the
   offsets of the local zone the system may be set to *)
Datetimes ==
  {[year |-> 2000, month |-> 3, day |-> 1, hour |-> 3, minute |-> 4,
    second |-> 5, microsecond |-> us, utcoffset |-> off, local |-> loc] :
     us \in {0, 60}, off \in {0, 330, -90}, loc \in {0, 330}}

Uuids == {[i \in 1..16 |-> IF i % 2 = 0 THEN 0 ELSE 16 * i + 11],
          [i \in 1..16 |-> 255 - i]}

(* What a json() method returns: JSON text, or a mapping *)
JsonResults == {StrV(Str(<<"{", "}">>)), DictV(<<<<Str(<<"k">>), IntV(1)>>>>)}

Bare == {BytesV(b) : b \in ByteStrings} \cup {DatetimeV(d) : d \in Datetimes}
          \cup {UuidV(b) : b \in Uuids} \cup {ObjectV(None)}

(* The values that have no native JSON representation *)
SpecialValues == Bare \cup {WithJson(o, j) : o \in Bare, j \in JsonResults}

NativeValues ==
  {None, True, False, IntV(30), IntV(-7), StrV(anon),
   StrV(<<Ord("\""), Ord("\\"), 10, 233>>),
   ListV(<<IntV(0), None>>), DictV(<<<<Str(<<"k">>), StrV(<< >>)>>>>)}

FieldValues ==
  NativeValues \cup {BytesV(<<255, 254>>), BytesV(<<195, 169>>),
                     ObjectV(None)}
    \cup {DatetimeV(d) : d \in {e \in Datetimes : e.microsecond = 0}}

(* The datetimes of one input are encoded on one system: they agree on the
   local zone *)
SameZone(f) ==
  \A i, j \in 1..Len(f) :
    f[i].t = "datetime" /\ f[j].t = "datetime"
      => f[i].dt.local = f[j].dt.local

(* The __dict__ of a record instance, or any mapping given to dumps *)
Mappings ==
  {DictV([i \in 1..Len(f) |-> <<Names[i], f[i]>>]) :
     f \in {g \in UNION {[1..n -> FieldValues] : n \in 0..Len(Names)} :
              SameZone(g)}}

RECURSIVE IsNative(_)
IsNative(x) ==
  CASE x.t \in {"none", "bool", "int", "str"} -> TRUE
    [] x.t = "list" -> \A i \in 1..Len(x.l) : IsNative(x.l[i])
    [] x.t = "dict" -> \A i \in 1..Len(x.d) : IsNative(x.d[i][2])
    [] OTHER -> FALSE

InitSer ==
  /\ cls = None
  /\ instances = [h \in Handles |-> None]
  /\ metadata = EmptyMetadata
  /\ last = NoOp
  /\ input \in Mappings \cup SpecialValues

Applied(op, r) ==
  /\ last' = [NoOp EXCEPT !.op = op, !.err = r.err, !.value = r.value]
  /\ UNCHANGED <<cls, instances, metadata, input>>

(* GallonEncoder().default(input) *)
ApplyDefault ==
  /\ input \in SpecialValues
  /\ \E r \in {EncoderDefault(input)} : Applied("default", r)

(* r.dict(), input being the __dict__ of r *)
ApplyDict ==
  /\ input.t = "dict"
  /\ \E r \in {GallonModelDict(input.d, TRUE)} : Applied("dict", r)

(* r.json() *)
ApplyJson ==
  /\ input.t = "dict"
  /\ \E r \in {GallonModelJson(input.d, TRUE)} : Applied("json", r)

(* dumps(input) *)
ApplyDumps ==
  /\ input.t = "dict"
  /\ \E r \in {dumps(input, TRUE)} : Applied("dumps", r)

(* loads(text), text being what r.json() or dumps() has just returned *)
ApplyLoads ==
  /\ last.op \in {"json", "dumps"}
  /\ last.err = ""
  /\ \E r \in {loads(last.value)} : Applied("loads", r)

NextSer ==
  \/ ApplyDefault
  \/ ApplyDict
  \/ ApplyJson
  \/ ApplyDumps
  \/ ApplyLoads

SpecSer == InitSer /\ [][NextSer]_vars

----------------------------------------------------------------------------
(* Properties *)

(* The annotation and the class attribute of the i-th declared field *)
NameOf(c, i) == c.annotations[i][1]
TypeAt(c, i) == c.annotations[i][2]
AttrOf(c, i) == GetAttr(c, NameOf(c, i))
Fields(c) == 1..Len(c.annotations)

(* self.metadata read from an instance: the class attribute *)
InstanceMetadata(h) == metadata

(* h.name: [err, value] *)
Read(h, name) == GetValue(cls, instances[h].dict, name)

(* The names of the declared fields of c whose DataFieldModel has the flag
   set, in declaration order *)
RECURSIVE Flagged(_, _, _)
Flagged(c, flag, n) ==
  IF n = 0 THEN << >>
  ELSE IF IsField(AttrOf(c, n)) /\ ~IsNone(AttrOf(c, n)[flag])
  THEN Append(Flagged(c, flag, n - 1), NameOf(c, n))
  ELSE Flagged(c, flag, n - 1)

BodyHasUnannotatedField(body) ==
  \E i \in 1..Len(body.attrs) :
    /\ IsField(body.attrs[i][2])
    /\ \A j \in 1..Len(body.annotations) :
         body.annotations[j][1] # body.attrs[i][1]

(* C1: a class body in which some attribute is a DataFieldModel and has no
   annotation is rejected with TypeError when the class is defined: no class
   comes to exist, so no instance can be constructed, and every class that
   exists has an annotation for each of its DataFieldModel attributes *)
C1_UnannotatedFieldRejected ==
  /\ last.op = "define" /\ BodyHasUnannotatedField(last.args)
       => last.err = "TypeError" /\ IsNone(cls)
  /\ IsNone(cls) => \A h \in Handles : IsNone(instances[h])
  /\ ~IsNone(cls) =>
       \A i \in 1..Len(cls.attrs) :
         IsField(cls.attrs[i][2]) => DictHas(cls.annotations, cls.attrs[i][1])

(* A body with an annotated field before the unannotated one is rejected *)
C1_Witness ==
  /\ last.op = "define" /\ last.err = "TypeError"
  /\ Len(last.args.annotations) = 1
  /\ Len(last.args.attrs) = 2
  /\ last.at = last.args.attrs[2][1]

(* The i-th field is declared required and has no default factory, and the
   construction received no value for it *)
RequiredAndMissing(c, kwargs, i) ==
  /\ IsField(AttrOf(c, i))
  /\ PyEq(AttrOf(c, i).default, Required) \/ PyEq(AttrOf(c, i).required, True)
  /\ IsNone(AttrOf(c, i).default_factory)
  /\ IsNone(DictGet(kwargs, NameOf(c, i), None))

(* C2: a construction that receives no value for a field declared required
   (by the Required sentinel or by required=True) without a default factory
   fails and yields no instance; it fails with ValueError on that field when
   that field is the first one declared *)
C2_RequiredFieldEnforced ==
  last.op = "construct" =>
    \A i \in Fields(cls) :
      RequiredAndMissing(cls, last.args, i) =>
        /\ last.err # ""
        /\ i = 1 => last.err = "ValueError" /\ last.at = NameOf(cls, i)

(* C3: the indexes and uniques metadata read from an instance hold exactly
   the names of that instance's own flagged fields, once each, in
   declaration order *)
C3_MetadataInstanceScoped ==
  \A h \in Handles :
    ~IsNone(instances[h]) =>
      /\ InstanceMetadata(h).indexes = Flagged(cls, "index", Len(cls.annotations))
      /\ InstanceMetadata(h).uniques = Flagged(cls, "unique", Len(cls.annotations))

(* C4: for a record whose field values are JSON-native, loads applied to the
   text of json() gives a mapping equal to dict() *)
C4_RoundTrip ==
  last.op = "loads" /\ input.t = "dict" /\ IsNative(input) =>
    /\ last.err = ""
    /\ last.value.t = "dict"
    /\ last.value = GallonModelDict(input.d, TRUE).value

(* The i-th field has a default factory and the construction received no
   value for it *)
FactoryAndMissing(c, kwargs, i) ==
  /\ IsField(AttrOf(c, i))
  /\ ~IsNone(AttrOf(c, i).default_factory)
  /\ IsNone(DictGet(kwargs, NameOf(c, i), None))

(* C5 as claimed: in a construction, every field with a default factory and
   no supplied value has its factory invoked exactly once and holds the
   factory's result, whatever its static default and the result *)
C5_FactoryOnceForAll ==
  last.op = "construct" /\ last.err = "" =>
    \A i \in Fields(cls) :
      FactoryAndMissing(cls, last.args, i) =>
        /\ DictGet(last.calls, NameOf(cls, i), 0) = 1
        /\ Read(last.h, NameOf(cls, i)).value = AttrOf(cls, i).default_factory.result

(* The construction got as far as resolving the i-th field: it succeeded, or
   it failed on that field or on a later one *)
Reached(c, i) ==
  last.err = "" \/ \E j \in Fields(c) : j >= i /\ NameOf(c, j) = last.at

(* The construction got past the i-th field *)
Passed(c, i) ==
  last.err = "" \/ \E j \in Fields(c) : j > i /\ NameOf(c, j) = last.at

(* C5 amended: for a field with a default factory and no supplied value.
   A construction that fails before reaching the field does not invoke the
   factory.  Otherwise:
   - with a static default (not None, not Required) that is an instance of
     the field's type, the factory is not invoked and a construction that
     succeeds leaves the static default in the field (a static default that
     is not an instance of the type is the case of C8 and is not covered);
   - with no static default and a factory result that is not None and is an
     instance of the type, the factory is invoked exactly once, by the
     constructor's resolution step, and a construction that succeeds leaves
     the result in the field;
   - with no static default and a factory result of None, the resolution
     step invokes the factory once; if the construction fails on this field
     that is the only invocation, and if it gets past this field the
     descriptor write has invoked the factory a second time, the field of a
     successful construction holding None *)
C5_FactoryOnce ==
  last.op = "construct" =>
    \A i \in Fields(cls) :
      FactoryAndMissing(cls, last.args, i) =>
        LET attr == AttrOf(cls, i)
            n == DictGet(last.calls, NameOf(cls, i), 0)
            result == attr.default_factory.result
            stored == Read(last.h, NameOf(cls, i))
        IN IF ~Reached(cls, i) THEN n = 0
           ELSE IF ~IsNone(attr.default) /\ ~PyEq(attr.default, Required)
           THEN IsInstance(attr.default, TypeAt(cls, i)) =>
                  /\ n = 0
                  /\ last.err = "" =>
                       stored.err = "" /\ stored.value = attr.default
           ELSE IF ~IsNone(result)
           THEN IsInstance(result, TypeAt(cls, i)) =>
                  /\ n = 1
                  /\ last.err = "" =>
                       stored.err = "" /\ stored.value = result
           ELSE /\ ~Passed(cls, i) => n = 1 /\ last.at = NameOf(cls, i)
                /\ Passed(cls, i) => n = 2
                /\ last.err = "" => stored.err = "" /\ IsNone(stored.value)

(* A Required field with a factory, constructed without a value *)
C5_Witness ==
  /\ last.op = "construct" /\ last.err = ""
  /\ \E i \in Fields(cls) :
       /\ FactoryAndMissing(cls, last.args, i)
       /\ PyEq(AttrOf(cls, i).default, Required)
       /\ DictGet(last.calls, NameOf(cls, i), 0) = 1
       /\ Read(last.h, NameOf(cls, i)).value = IntV(7)

(* C6: a value that is not None and is not an instance of the field's
   annotated type is refused with TypeError, by the construction it is
   supplied to and by the write it is passed to, and is not stored *)
C6_SuppliedTypeChecked ==
  /\ last.op = "construct" =>
       \A i \in Fields(cls) :
         LET v == DictGet(last.args, NameOf(cls, i), None)
         IN ~IsNone(v) /\ ~IsInstance(v, TypeAt(cls, i)) => last.err # ""
  /\ last.op = "write" =>
       \A i \in Fields(cls) :
         /\ NameOf(cls, i) = last.at
         /\ ~IsNone(last.value)
         /\ ~IsInstance(last.value, TypeAt(cls, i))
         => last.err = "TypeError" /\ Read(last.h, last.at).value # last.value

(* The UTF-8 encoding of a sequence of code points *)
Utf8Bytes(cp) ==
  IF cp < 128 THEN <<cp>>
  ELSE IF cp < 2048 THEN <<192 + cp \div 64, 128 + (cp % 64)>>
  ELSE IF cp < 65536
  THEN <<224 + cp \div 4096, 128 + ((cp \div 64) % 64), 128 + (cp % 64)>>
  ELSE <<240 + cp \div 262144, 128 + ((cp \div 4096) % 64),
         128 + ((cp \div 64) % 64), 128 + (cp % 64)>>

Utf8Encode(text) == Concat([i \in 1..Len(text) |-> Utf8Bytes(text[i])])

(* The bytes a base64 text stands for *)
B64Value(c) == CHOOSE v \in 0..63 : B64Char(v) = c

B64Quad(q) ==
  LET v == [i \in 1..4 |-> IF q[i] = Ord("=") THEN 0 ELSE B64Value(q[i])]
      n == ((v[1] * 64 + v[2]) * 64 + v[3]) * 64 + v[4]
      all == <<n \div 65536, (n \div 256) % 256, n % 256>>
  IN IF q[3] = Ord("=") THEN SubSeq(all, 1, 1)
     ELSE IF q[4] = Ord("=") THEN SubSeq(all, 1, 2)
     ELSE all

B64Decode(text) ==
  Concat([k \in 1..(Len(text) \div 4) |->
            B64Quad(SubSeq(text, 4 * k - 3, 4 * k))])

(* C7: GallonEncoder.default decides by the first rule that matches, in the
   order datetime, UUID, bytes, json(): a datetime gives its ISO-8601 text,
   a UUID its canonical text, bytes their UTF-8 text when they are valid
   UTF-8 and otherwise base64 text that decodes back to the same bytes, a
   value with json() the result of json(); a value matching no rule gives
   TypeError and no output.  A json() on a datetime, UUID or bytes value is
   not consulted *)
C7_EncoderRuleOrder ==
  last.op = "default" =>
    IF input.t = "datetime"
    THEN /\ last.err = ""
         /\ last.value = StrV(IsoFormat(Astimezone(input.dt)))
         /\ last.value.s[11] = Ord("T")
    ELSE IF input.t = "UUID"
    THEN /\ last.err = "" /\ last.value = StrV(UuidStr(input.uuid))
         /\ Len(last.value.s) = 36
         /\ \A i \in {9, 14, 19, 24} : last.value.s[i] = Ord("-")
    ELSE IF input.t = "bytes"
    THEN /\ last.err = "" /\ last.value.t = "str"
         /\ IF Utf8Decode(input.bytes, 1).ok
            THEN Utf8Encode(last.value.s) = input.bytes
            ELSE /\ Len(last.value.s) % 4 = 0
                 /\ B64Decode(last.value.s) = input.bytes
    ELSE IF ~IsNone(input.json)
    THEN last.err = "" /\ last.value = input.json
    ELSE last.err = "TypeError" /\ IsNone(last.value)

(* Bytes that are not valid UTF-8 and whose class defines json(): encoded
   by the bytes rule, as base64 *)
C7_Witness ==
  /\ last.op = "default" /\ last.err = ""
  /\ input.t = "bytes" /\ ~IsNone(input.json)
  /\ Len(input.bytes) = 3
  /\ ~Utf8Decode(input.bytes, 1).ok
  /\ last.value = StrV(B64Encode(input.bytes))

(* C8: an instance returned by a construction that received no value for a
   field does not hold that field's static default when the default is not
   None, is not Required and is not an instance of the field's type *)
C8_MistypedDefaultNotUsed ==
  last.op = "construct" /\ last.err = "" =>
    \A i \in Fields(cls) :
      LET attr == AttrOf(cls, i)
      IN /\ IsField(attr)
         /\ IsNone(DictGet(last.args, NameOf(cls, i), None))
         /\ ~IsNone(attr.default) /\ ~PyEq(attr.default, Required)
         /\ ~IsInstance(attr.default, TypeAt(cls, i))
         => Read(last.h, NameOf(cls, i)).value # attr.default

(* C9: writing None to a field whose default is Required fails with
   ValueError and leaves the instance as it was: the field still reads the
   value it held before the write *)
C9_FailedWriteKeepsValue ==
  [][last'.op = "write" /\ IsNone(last'.value)
       /\ IsField(GetAttr(cls, last'.at))
       /\ PyEq(GetAttr(cls, last'.at).default, Required)
     => /\ last'.err = "ValueError"
        /\ instances'[last'.h] = instances[last'.h]]_vars

(* C10: a construction that fails leaves the indexes and uniques metadata
   of the type and of every instance as they were before the call *)
C10_FailedConstructNoEffect ==
  [][last'.op = "construct" /\ last'.err # ""
     => /\ metadata' = metadata
        /\ instances' = instances]_vars

====
